---- MODULE Spec2Model ----
(***************************************************************************)
(* Model of src/s3_upload_test.py: one validation run of async_main.       *)
(* A file is encrypted segment by segment, cut into parts, sent through a  *)
(* MultipartUpload transaction, read back in byte ranges, decrypted and    *)
(* its checksums compared.                                                 *)
(*                                                                         *)
(* Sizes are scaled: a byte is one sequence element; SEGMENT_SIZE,         *)
(* NONCE_LENGTH, TAG_LENGTH and the number of segments in one MiB are      *)
(* small, so that a file of a few dozen bytes spans several segments and   *)
(* several parts.  The structure of the code is kept: one MiB is a whole   *)
(* number of segments, a part is a whole number of MiB, a cipher segment   *)
(* is NONCE_LENGTH + TAG_LENGTH bytes longer than its segment.             *)
(***************************************************************************)
EXTENDS Integers, Sequences, FiniteSets, TLC

\* ------------------------------------------------------------------ sizes
\* crypt4gh.lib.SEGMENT_SIZE (65536 in the library), scaled.
SEGMENT_SIZE == 2
\* Length of the nonce os.urandom(12) prepended to a cipher segment, scaled.
NONCE_LENGTH == 1
\* Length of the Poly1305 tag the AEAD appends (16 in the library), scaled.
TAG_LENGTH == 1
\* Number of segments in one MiB (1024**2 / 65536 = 16 in the code), scaled.
SegmentsPerMiB == 1
\* Largest size input_path.stat().st_size reports in a modelled run.
MaxFileSize == 22
\* By how many bytes the file may have grown between stat() and open().
MaxGrowth == 1

MiB == SegmentsPerMiB * SEGMENT_SIZE
\* crypt4gh.lib.CIPHER_SEGMENT_SIZE = SEGMENT_SIZE + 28
CIPHER_DIFF == NONCE_LENGTH + TAG_LENGTH
CIPHER_SEGMENT_SIZE == SEGMENT_SIZE + CIPHER_DIFF

\* Part sizes in MiB a configuration file may ask for (Config.part_size).
RequestedPartSizes == {4, 6}

\* ------------------------------------------------------------ arithmetic
Min(a, b) == IF a <= b THEN a ELSE b

\* int(a / b) for a >= 0, b >= 1
FloorDiv(a, b) == a \div b

\* math.ceil(a / b) for a >= 0, b >= 1
CeilDiv(a, b) == (a + b - 1) \div b

RECURSIVE Pow2(_)
Pow2(x) == IF x = 0 THEN 1 ELSE 2 * Pow2(x - 1)

\* ---------------------------------------------------------- byte strings
\* part[:n]
Take(s, n) == SubSeq(s, 1, Min(n, Len(s)))

\* part[n:]
Drop(s, n) == SubSeq(s, n + 1, Len(s))

\* part[a:b], Python slice with 0 <= a <= b
Slice(s, a, b) == SubSeq(s, a + 1, Min(b, Len(s)))

\* b"".join(list)
RECURSIVE Join(_)
Join(ss) == IF ss = <<>> THEN <<>> ELSE Head(ss) \o Join(Tail(ss))

\* The content of the input file: byte i carries its own offset, so a lost,
\* repeated or displaced byte changes the stream.
FileBytes(n) == [i \in 1..n |-> i]

\* ------------------------------------------------------- get_segments
\* get_segments without the remainder: the bytes after the last full
\* segment are dropped.
get_segments_without_remainder(part, segment_size) ==
    LET full_segments == FloorDiv(Len(part), segment_size)
    IN  [segments |-> [i \in 1..full_segments |->
                          Slice(part, (i - 1) * segment_size, i * segment_size)],
         incomplete_segment |-> <<>>]

get_segments(part, segment_size) ==
    LET full_segments == FloorDiv(Len(part), segment_size)
        partial_segment_idx == CeilDiv(Len(part), segment_size)
        segments == [i \in 1..full_segments |->
                        Slice(part, (i - 1) * segment_size, i * segment_size)]
    IN  [segments |-> segments,
         incomplete_segment |->
             IF partial_segment_idx # full_segments
             THEN Drop(part, full_segments * segment_size)
             ELSE <<>>]

\* ----------------------------------------------------------- get_ranges
\* Ranges whose end is the offset after the last byte, not the last byte.
get_ranges_exclusive_end(file_size, part_size) ==
    LET num_parts_floor == FloorDiv(file_size, part_size)
        byte_ranges == [k \in 1..num_parts_floor |->
                           <<part_size * (k - 1), part_size * k>>]
    IN  IF CeilDiv(file_size, part_size) # num_parts_floor
        THEN Append(byte_ranges, <<part_size * num_parts_floor, file_size>>)
        ELSE byte_ranges

\* get_ranges without the range of the last, shorter part
get_ranges_without_remainder(file_size, part_size) ==
    [k \in 1..FloorDiv(file_size, part_size) |->
        <<part_size * (k - 1), part_size * k - 1>>]

get_ranges(file_size, part_size) ==
    LET num_parts_floor == FloorDiv(file_size, part_size)
        byte_ranges == [k \in 1..num_parts_floor |->
                           <<part_size * (k - 1), part_size * k - 1>>]
    IN  IF CeilDiv(file_size, part_size) # num_parts_floor
        THEN Append(byte_ranges, <<part_size * num_parts_floor, file_size - 1>>)
        ELSE byte_ranges

\* ------------------------------------------------ check_adjust_part_size
PART_CEILING == 9995

lower_bound == 5 * MiB
upper_bound == 5 * 1024 * MiB

\* The clamp without its elif: a size above the upper bound is kept.
ClampPartSizeNoUpper(requested) ==
    LET part_size == requested * MiB
    IN  IF part_size < lower_bound THEN lower_bound ELSE part_size

\* clamp user input part sizes
ClampPartSize(requested) ==
    LET part_size == requested * MiB
    IN  IF part_size < lower_bound THEN lower_bound
        ELSE IF part_size > upper_bound THEN upper_bound
        ELSE part_size

\* sizes = [2**x MiB for x in range(3, 13)]
CandidateSizes == [i \in 1..10 |-> Pow2(i + 2) * MiB]

\* The for/else taking the first larger candidate, whatever part count it
\* leaves.
RECURSIVE FirstCandidateAnyLarger(_, _, _)
FirstCandidateAnyLarger(i, part_size, file_size) ==
    IF i > Len(CandidateSizes) THEN 0
    ELSE IF CandidateSizes[i] > part_size
         THEN CandidateSizes[i]
         ELSE FirstCandidateAnyLarger(i + 1, part_size, file_size)

\* The for/else run over the list from its largest size down.
RECURSIVE FirstCandidateFromLargest(_, _, _)
FirstCandidateFromLargest(i, part_size, file_size) ==
    IF i > Len(CandidateSizes) THEN 0
    ELSE LET candidate == CandidateSizes[Len(CandidateSizes) + 1 - i]
         IN  IF candidate > part_size /\ file_size <= PART_CEILING * candidate
             THEN candidate
             ELSE FirstCandidateFromLargest(i + 1, part_size, file_size)

\* The for/else over sizes: the first candidate, from index i on, that is
\* larger than part_size and keeps the part count within the ceiling; 0 when
\* the loop runs to its else branch.
RECURSIVE FirstCandidate(_, _, _)
FirstCandidate(i, part_size, file_size) ==
    IF i > Len(CandidateSizes) THEN 0
    ELSE IF /\ CandidateSizes[i] > part_size
            /\ file_size <= PART_CEILING * CandidateSizes[i]
         THEN CandidateSizes[i]
         ELSE FirstCandidate(i + 1, part_size, file_size)

\* Result of check_adjust_part_size: ok = FALSE stands for the ValueError,
\* part_size is the value written back to config.part_size (bytes).
check_adjust_part_size(requested, file_size) ==
    LET clamped == ClampPartSize(requested)
    IN  IF file_size > PART_CEILING * clamped
        THEN LET candidate == FirstCandidate(1, clamped, file_size)
             IN  IF candidate = 0
                 THEN [ok |-> FALSE, part_size |-> clamped]
                 ELSE [ok |-> TRUE, part_size |-> candidate]
        ELSE [ok |-> TRUE, part_size |-> clamped]

\* ------------------------------------------------------------- Checksums
\* A hash is modelled by a tagged copy of what was hashed: equal digests
\* mean equal input, and digests of different algorithms differ.
md5(data) == <<"md5", data>>
sha256(data) == <<"sha256", data>>

\* Checksums.__init__
NewChecksums ==
    [unencrypted_sha256 |-> <<>>, encrypted_md5 |-> <<>>, encrypted_sha256 |-> <<>>]

\* Checksums.update_unencrypted: hashlib update of the running hash
update_unencrypted(c, part) ==
    [c EXCEPT !.unencrypted_sha256 = @ \o part]

\* update_encrypted that appends the MD5 only
update_encrypted_md5_only(c, part) ==
    [c EXCEPT !.encrypted_md5 = Append(@, md5(part))]

\* Checksums.update_encrypted
update_encrypted(c, part) ==
    [c EXCEPT !.encrypted_md5 = Append(@, md5(part)),
              !.encrypted_sha256 = Append(@, sha256(part))]

\* get returning the plaintext digest alone
ChecksumsGetPlainOnly(c) == <<sha256(c.unencrypted_sha256)>>

\* Checksums.get
ChecksumsGet(c) ==
    <<sha256(c.unencrypted_sha256), c.encrypted_md5, c.encrypted_sha256>>

\* -------------------------------------------------------------- the AEAD
\* return encrypted_data, without the nonce in front
encrypt_segment_without_nonce(segment, nonce) ==
    [i \in 1..Len(segment) |-> <<"ct", nonce, i, segment[i]>>]
    \o [i \in 1..TAG_LENGTH |-> <<"tag", nonce, segment>>]

\* Encryptor._encrypt_segment: nonce + ciphertext + tag.  A ciphertext byte
\* depends on the nonce, its offset and the plaintext byte; the tag
\* authenticates the nonce and the whole segment.
encrypt_segment(segment, nonce) ==
    [i \in 1..NONCE_LENGTH |-> <<"nonce", nonce>>]
    \o [i \in 1..Len(segment) |-> <<"ct", nonce, i, segment[i]>>]
    \o [i \in 1..TAG_LENGTH |-> <<"tag", nonce, segment>>]

\* _encrypt encrypting what is left of the part as a segment of its own
\* instead of handing it back.
Encryptor_encrypt_with_remainder(part, nonce) ==
    LET split == get_segments(part, SEGMENT_SIZE)
        n == Len(split.segments)
        full == Join([i \in 1..n |-> encrypt_segment(split.segments[i], nonce + i)])
    IN  IF split.incomplete_segment = <<>>
        THEN [encrypted |-> full, incomplete_segment |-> <<>>, nonce |-> nonce + n]
        ELSE [encrypted |-> full \o encrypt_segment(split.incomplete_segment,
                                                    nonce + n + 1),
              incomplete_segment |-> <<>>,
              nonce |-> nonce + n + 1]

\* Encryptor._encrypt: every full segment is encrypted with a fresh nonce,
\* nonces counted on from `nonce`.
Encryptor_encrypt(part, nonce) ==
    LET split == get_segments(part, SEGMENT_SIZE)
        n == Len(split.segments)
    IN  [encrypted |-> Join([i \in 1..n |->
                                encrypt_segment(split.segments[i], nonce + i)]),
         incomplete_segment |-> split.incomplete_segment,
         nonce |-> nonce + n]

\* crypt4gh.lib.decrypt_block as Decryptor._decrypt_segment uses it: strips
\* the nonce, checks the tag, returns the plaintext; ok = FALSE is the
\* authentication failure.
decrypt_segment(ciphersegment) ==
    LET n == Len(ciphersegment) - CIPHER_DIFF
    IN  IF n < 0 THEN [ok |-> FALSE, data |-> <<>>]
        ELSE LET head == ciphersegment[1]
                 nonce == head[2]
                 body == Slice(ciphersegment, NONCE_LENGTH, NONCE_LENGTH + n)
                 tag == Drop(ciphersegment, NONCE_LENGTH + n)
                 wellFormed ==
                     /\ \A i \in 1..NONCE_LENGTH :
                            ciphersegment[i] = <<"nonce", nonce>>
                     /\ \A i \in 1..n :
                            /\ Len(body[i]) = 4
                            /\ body[i][1] = "ct"
                            /\ body[i][2] = nonce
                            /\ body[i][3] = i
                 plain == [i \in 1..n |-> body[i][4]]
             IN  IF /\ head[1] = "nonce"
                    /\ wellFormed
                    /\ \A i \in 1..TAG_LENGTH : tag[i] = <<"tag", nonce, plain>>
                 THEN [ok |-> TRUE, data |-> plain]
                 ELSE [ok |-> FALSE, data |-> <<>>]

\* Decryptor._decrypt: every full cipher segment is decrypted; ok = FALSE
\* when one of them fails to authenticate.
Decryptor_decrypt(part) ==
    LET split == get_segments(part, CIPHER_SEGMENT_SIZE)
        n == Len(split.segments)
        results == [i \in 1..n |-> decrypt_segment(split.segments[i])]
    IN  [ok |-> \A i \in 1..n : results[i].ok,
         decrypted |-> Join([i \in 1..n |-> results[i].data]),
         incomplete_segment |-> split.incomplete_segment]

\* ------------------------------------------------------------ exceptions
\* What a call can raise: an Exception subclass (network error, backend
\* rejection, ValueError), KeyboardInterrupt, or asyncio.CancelledError,
\* which since Python 3.8 derives from BaseException and not from Exception.
FailKinds == {"Exception", "KeyboardInterrupt", "CancelledError"}

\* What synchronous code can raise (the generator process_file, SESSION.put,
\* SESSION.get): a cancellation of the task is only delivered at an await.
SyncFailKinds == {"Exception", "KeyboardInterrupt"}

\* except (Exception, KeyboardInterrupt) as exc
Caught(kind) == kind \in {"Exception", "KeyboardInterrupt"}

NoExc == [kind |-> "none", origin |-> "none"]
Exc(kind, origin) == [kind |-> kind, origin |-> origin]

\* -------------------------------------------------------------- the state
VARIABLES
    pc,             \* position of the flow inside async_main
    file_size,      \* input_path.stat().st_size
    file_len,       \* number of bytes open(input_path) then delivers
    requested,      \* config.part_size as loaded, in MiB
    part_size,      \* config.part_size after check_adjust_part_size, in bytes
    encryptor,      \* the Encryptor and the position of process_file
    part_number,    \* the for loop's part_number in encrypt_and_upload
    part,           \* the for loop's part
    exc_v,          \* exception the with body ended with, as __aexit__ gets it
    exc,            \* exception bound by the except clause being executed
    backend,        \* the object storage: upload state, stored parts, object
    calls,          \* every request made to the backend, in order
    emitted,        \* the parts process_file has yielded, in order
    sent,           \* the arguments of every send_part call, in order
    returned,       \* number of send_part calls that have ended
    upload_times,   \* len(upload_times)
    download_times, \* len(download_times)
    decryptor,      \* the Decryptor inside process_parts
    range_index,    \* number of ranges _download_parts has requested
    raised,         \* exception that left async_main, NoExc if none
    faults,         \* history: failures the environment has caused so far
    probe           \* a helper function called on its own: arguments, result

vars == <<pc, file_size, file_len, requested, part_size, encryptor, part_number,
          part, exc_v, exc, backend, calls, emitted, sent, returned, upload_times,
          download_times, decryptor, range_index, raised, faults, probe>>

\* Encryptor.__init__ and the first lines of process_file
NewEncryptor ==
    [at |-> "loop", pos |-> 0, unprocessed_bytes |-> <<>>, upload_buffer |-> <<>>,
     checksums |-> NewChecksums, encrypted_file_size |-> 0, nonce |-> 0]

\* Decryptor.__init__ and the first lines of process_parts
NewDecryptor ==
    [unprocessed_bytes |-> <<>>, download_buffer |-> <<>>, checksums |-> NewChecksums]

NewBackend == [upload |-> "not_started", parts |-> <<>>, object |-> <<>>]

\* No helper function is being called on its own.
NoProbe == [fn |-> "none", args |-> <<>>, result |-> <<>>]

Init ==
    /\ pc = "start"
    /\ file_size \in 0..MaxFileSize
    /\ file_len \in file_size..(file_size + MaxGrowth)
    /\ requested \in RequestedPartSizes
    /\ part_size = 0
    /\ encryptor = NewEncryptor
    /\ part_number = 0
    /\ part = <<>>
    /\ exc_v = NoExc
    /\ exc = NoExc
    /\ backend = NewBackend
    /\ calls = <<>>
    /\ emitted = <<>>
    /\ sent = <<>>
    /\ returned = 0
    /\ upload_times = 0
    /\ download_times = 0
    /\ decryptor = NewDecryptor
    /\ range_index = 0
    /\ raised = NoExc
    /\ faults = 0
    /\ probe = NoProbe

\* A request to the backend and how it ended.
Call(op, n, result) == [op |-> op, part_number |-> n, result |-> result]

\* The backend only completes or aborts an upload it holds in progress.
BackendAccepts == backend.upload = "in_progress"

\* History: 1 when `result` is a failure the environment caused (a network
\* error, an interrupt, a rejected transmission), 0 when the request went
\* through or the backend refused a request for an upload it no longer holds.
Injected(result) ==
    IF result = "ok" \/ (result = "Exception" /\ ~BackendAccepts) THEN 0 ELSE 1

\* History: 1 when `result` is not the plain success of the request.
Failed(result) == IF result = "ok" THEN 0 ELSE 1

\* encrypted_file_size as encrypt_and_upload computes it in advance
TheoreticalEncryptedSize(size) ==
    size + CeilDiv(size, SEGMENT_SIZE) * CIPHER_DIFF

\* ---------------------------------------------------------- async_main
\* async_main going on to the upload although no part size was found.
AsyncMainStartIgnoresError ==
    /\ pc = "start"
    /\ part_size' = check_adjust_part_size(requested, file_size).part_size
    /\ pc' = "aenter"
    /\ UNCHANGED <<probe, file_size, file_len, requested, encryptor, part_number, part,
                   exc_v, exc, backend, calls, emitted, sent, returned, upload_times,
                   download_times, decryptor, range_index, raised, faults>>

\* async_main up to the construction of the uploader.
AsyncMainStart ==
    /\ pc = "start"
    /\ UNCHANGED faults
    /\ LET adjusted == check_adjust_part_size(requested, file_size)
       IN  IF adjusted.ok
           THEN /\ part_size' = adjusted.part_size
                /\ pc' = "aenter"
                /\ raised' = raised
           ELSE /\ part_size' = part_size
                /\ pc' = "raised"
                /\ raised' = Exc("Exception", "check_adjust_part_size")
    /\ UNCHANGED <<probe, file_size, file_len, requested, encryptor, part_number, part,
                   exc_v, exc, backend, calls, emitted, sent, returned, upload_times,
                   download_times, decryptor, range_index>>

\* MultipartUpload.__aenter__: an exception here leaves the with statement
\* without __aexit__ being run.
MultipartUploadAenter ==
    /\ pc = "aenter"
    /\ \E result \in {"ok"} \cup FailKinds :
        /\ calls' = Append(calls, Call("init_multipart_upload", 0, result))
        /\ faults' = faults + Failed(result)
        /\ IF result = "ok"
           THEN /\ backend' = [backend EXCEPT !.upload = "in_progress"]
                /\ pc' = "pull"
                /\ raised' = raised
           ELSE /\ backend' = backend
                /\ pc' = "raised"
                /\ raised' = Exc(result, "init_multipart_upload")
    /\ UNCHANGED <<probe, file_size, file_len, requested, part_size, encryptor,
                   part_number, part, exc_v, exc, emitted, sent, returned, upload_times,
                   download_times, decryptor, range_index>>

\* ------------------------------------------- Encryptor.process_file
\* The generator yields current_part: the for loop of encrypt_and_upload
\* numbers it and calls send_part with it.
SendPartArgs(number, current_part) == [part_number |-> number, part |-> current_part]

\* enumerate without start=1
EnumerateFromZero(index) == index

\* enumerate(..., start=1): the number given to the item of 0-based index
Enumerate(index) == index + 1

YieldPart(current_part) ==
    /\ part_number' = Enumerate(Len(emitted))
    /\ part' = current_part
    /\ emitted' = Append(emitted, current_part)
    /\ sent' = Append(sent, SendPartArgs(Enumerate(Len(emitted)), current_part))
    /\ pc' = "get_part_upload_url"

\* One iteration of the for loop over read_file_parts, up to its yield.
EncryptorReadChunk ==
    /\ pc = "pull"
    /\ UNCHANGED faults
    /\ encryptor.at = "loop"
    /\ LET file_part == Slice(FileBytes(file_len), encryptor.pos,
                              encryptor.pos + part_size)
           enc == Encryptor_encrypt(encryptor.unprocessed_bytes \o file_part,
                                    encryptor.nonce)
           upload_buffer == encryptor.upload_buffer \o enc.encrypted
           read == [encryptor EXCEPT
                       !.pos = @ + Len(file_part),
                       !.checksums = update_unencrypted(@, file_part),
                       !.unprocessed_bytes = enc.incomplete_segment,
                       !.upload_buffer = upload_buffer,
                       !.nonce = enc.nonce]
       IN  /\ file_part # <<>>
           /\ IF Len(upload_buffer) >= part_size
              THEN /\ encryptor' = [read EXCEPT
                          !.checksums = update_encrypted(@, Take(upload_buffer, part_size)),
                          !.encrypted_file_size = @ + part_size,
                          !.at = "yielded_in_loop"]
                   /\ YieldPart(Take(upload_buffer, part_size))
              ELSE /\ encryptor' = read
                   /\ UNCHANGED <<part_number, part, emitted, sent, pc>>
    /\ UNCHANGED <<probe, file_size, file_len, requested, part_size, exc_v, exc, backend, calls,
                   returned, upload_times, download_times, decryptor, range_index,
                   raised>>

\* Resumed without upload_buffer = upload_buffer[self.part_size :]
EncryptorResumeLoopKeepsBuffer ==
    /\ pc = "pull"
    /\ UNCHANGED faults
    /\ encryptor.at = "yielded_in_loop"
    /\ encryptor' = [encryptor EXCEPT !.at = "loop"]
    /\ UNCHANGED <<probe, pc, file_size, file_len, requested, part_size, part_number, part,
                   exc_v, exc, backend, calls, emitted, sent, returned, upload_times,
                   download_times, decryptor, range_index, raised>>

\* The generator is resumed after a yield inside the for loop.
EncryptorResumeLoop ==
    /\ pc = "pull"
    /\ UNCHANGED faults
    /\ encryptor.at = "yielded_in_loop"
    /\ encryptor' = [encryptor EXCEPT !.upload_buffer = Drop(@, part_size),
                                      !.at = "loop"]
    /\ UNCHANGED <<probe, pc, file_size, file_len, requested, part_size, part_number, part,
                   exc_v, exc, backend, calls, emitted, sent, returned, upload_times,
                   download_times, decryptor, range_index, raised>>

\* read_file_parts is exhausted: process dangling bytes.
EncryptorDangling ==
    /\ pc = "pull"
    /\ UNCHANGED faults
    /\ encryptor.at = "loop"
    /\ encryptor.pos >= file_len
    /\ encryptor' =
         IF encryptor.unprocessed_bytes # <<>>
         THEN [encryptor EXCEPT
                  !.upload_buffer =
                      @ \o encrypt_segment(encryptor.unprocessed_bytes,
                                           encryptor.nonce + 1),
                  !.nonce = @ + 1,
                  !.at = "drain"]
         ELSE [encryptor EXCEPT !.at = "drain"]
    /\ UNCHANGED <<probe, pc, file_size, file_len, requested, part_size, part_number, part,
                   exc_v, exc, backend, calls, emitted, sent, returned, upload_times,
                   download_times, decryptor, range_index, raised>>

\* The while loop and the final if of process_file, up to the next yield or
\* to the end of the generator, which ends the for loop of the uploader.
EncryptorDrain ==
    /\ pc = "pull"
    /\ UNCHANGED faults
    /\ encryptor.at = "drain"
    /\ IF Len(encryptor.upload_buffer) >= part_size
       THEN /\ encryptor' = [encryptor EXCEPT
                   !.checksums = update_encrypted(@, Take(encryptor.upload_buffer, part_size)),
                   !.encrypted_file_size = @ + part_size,
                   !.at = "yielded_in_drain"]
            /\ YieldPart(Take(encryptor.upload_buffer, part_size))
       ELSE IF encryptor.upload_buffer # <<>>
       THEN /\ encryptor' = [encryptor EXCEPT
                   !.checksums = update_encrypted(@, encryptor.upload_buffer),
                   !.encrypted_file_size = @ + Len(encryptor.upload_buffer),
                   !.at = "yielded_tail"]
            /\ YieldPart(encryptor.upload_buffer)
       ELSE /\ encryptor' = [encryptor EXCEPT !.at = "done"]
            /\ pc' = "size_check"
            /\ UNCHANGED <<part_number, part, emitted, sent>>
    /\ UNCHANGED <<probe, file_size, file_len, requested, part_size, exc_v, exc, backend, calls,
                   returned, upload_times, download_times, decryptor, range_index,
                   raised>>

\* The generator is resumed after a yield of the while loop.
EncryptorResumeDrain ==
    /\ pc = "pull"
    /\ UNCHANGED faults
    /\ encryptor.at = "yielded_in_drain"
    /\ encryptor' = [encryptor EXCEPT !.upload_buffer = Drop(@, part_size),
                                      !.at = "drain"]
    /\ UNCHANGED <<probe, pc, file_size, file_len, requested, part_size, part_number, part,
                   exc_v, exc, backend, calls, emitted, sent, returned, upload_times,
                   download_times, decryptor, range_index, raised>>

\* The generator is resumed after the yield of the final tail and returns.
EncryptorResumeTail ==
    /\ pc = "pull"
    /\ UNCHANGED faults
    /\ encryptor.at = "yielded_tail"
    /\ encryptor' = [encryptor EXCEPT !.at = "done"]
    /\ pc' = "size_check"
    /\ UNCHANGED <<probe, file_size, file_len, requested, part_size, part_number, part,
                   exc_v, exc, backend, calls, emitted, sent, returned, upload_times,
                   download_times, decryptor, range_index, raised>>

\* process_file raises while producing the next part (the read fails,
\* os.urandom or the AEAD fails, or the flow is interrupted between parts).
EncryptorRaises ==
    /\ pc = "pull"
    /\ faults' = faults + 1
    /\ \E kind \in SyncFailKinds : exc_v' = Exc(kind, "process_file")
    /\ encryptor' = [encryptor EXCEPT !.at = "done"]
    /\ pc' = "aexit"
    /\ UNCHANGED <<probe, file_size, file_len, requested, part_size, part_number, part,
                   exc, backend, calls, emitted, sent, returned, upload_times,
                   download_times, decryptor, range_index, raised>>

\* ------------------------------------------ MultipartUpload.send_part
\* How send_part leaves its try block on an exception of `kind` raised by
\* `origin`: a caught one is bound to exc by the except clause, any other
\* one leaves send_part at once and reaches __aexit__ as exc_v.
SendPartFails(kind, origin) ==
    IF Caught(kind)
    THEN /\ exc' = Exc(kind, origin)
         /\ pc' = "send_part_abort"
         /\ UNCHANGED <<exc_v, returned>>
    ELSE /\ exc_v' = Exc(kind, origin)
         /\ pc' = "aexit"
         /\ returned' = returned + 1
         /\ exc' = exc

\* await self.storage.get_part_upload_url(...)
GetPartUploadUrl ==
    /\ pc = "get_part_upload_url"
    /\ \E result \in {"ok"} \cup FailKinds :
        /\ calls' = Append(calls, Call("get_part_upload_url", part_number, result))
        /\ faults' = faults + Failed(result)
        /\ IF result = "ok"
           THEN /\ pc' = "put"
                /\ UNCHANGED <<exc_v, exc, returned>>
           ELSE SendPartFails(result, "get_part_upload_url")
    /\ UNCHANGED <<probe, file_size, file_len, requested, part_size, encryptor,
                   part_number, part, backend, emitted, sent, upload_times,
                   download_times, decryptor, range_index, raised>>

\* What the backend keeps of a transmitted part.
StorePart(parts, number, data) ==
    [k \in 1..number |-> IF k = number THEN data
                         ELSE IF k <= Len(parts) THEN parts[k] ELSE <<>>]

\* SESSION.put(url=upload_url, data=part): the response is not looked at, so
\* a non-2xx answer ("non2xx", the part is not stored) ends send_part like a
\* 2xx one; then the loop body appends to upload_times.
SessionPut ==
    /\ pc = "put"
    /\ \E result \in {"ok", "non2xx"} \cup SyncFailKinds :
        /\ calls' = Append(calls, Call("put", part_number, result))
        /\ faults' = faults + Failed(result)
        /\ IF result \in {"ok", "non2xx"}
           THEN /\ backend' = IF result = "ok"
                              THEN [backend EXCEPT
                                       !.parts = StorePart(@, part_number, part)]
                              ELSE backend
                /\ pc' = "pull"
                /\ returned' = returned + 1
                /\ upload_times' = upload_times + 1
                /\ UNCHANGED <<exc_v, exc>>
           ELSE /\ SendPartFails(result, "put")
                /\ UNCHANGED <<backend, upload_times>>
    /\ UNCHANGED <<probe, file_size, file_len, requested, part_size, encryptor,
                   part_number, part, emitted, sent, download_times, decryptor,
                   range_index, raised>>

\* The except clause of send_part: abort_multipart_upload, then raise exc.
\* If the abort call raises, its exception is the one that leaves send_part.
SendPartAbort ==
    /\ pc = "send_part_abort"
    /\ \E result \in {"ok"} \cup FailKinds :
        /\ result = "ok" => BackendAccepts
        /\ calls' = Append(calls, Call("abort_multipart_upload", part_number, result))
        /\ faults' = faults + Injected(result)
        /\ IF result = "ok"
           THEN /\ backend' = [backend EXCEPT !.upload = "aborted"]
                /\ exc_v' = exc
           ELSE /\ backend' = backend
                /\ exc_v' = Exc(result, "abort_multipart_upload")
    /\ pc' = "aexit"
    /\ returned' = returned + 1
    /\ UNCHANGED <<probe, file_size, file_len, requested, part_size, encryptor,
                   part_number, part, exc, emitted, sent, upload_times,
                   download_times, decryptor, range_index, raised>>

\* ------------------------------ ChunkedUploader.encrypt_and_upload, end
\* The for loop is over: compare the computed and the actual encrypted size.
CheckEncryptedSize ==
    /\ pc = "size_check"
    /\ UNCHANGED faults
    /\ exc_v' = IF TheoreticalEncryptedSize(file_size) # encryptor.encrypted_file_size
                THEN Exc("Exception", "size_mismatch")
                ELSE NoExc
    /\ pc' = "aexit"
    /\ UNCHANGED <<probe, file_size, file_len, requested, part_size, encryptor,
                   part_number, part, exc, backend, calls, emitted, sent, returned,
                   upload_times, download_times, decryptor, range_index, raised>>

\* ------------------------------------------ MultipartUpload.__aexit__
\* The object the backend assembles when it completes the upload.
AssembleObject(parts) == Join(parts)

\* anticipated_part_quantity passed to complete_multipart_upload
AnticipatedPartQuantity ==
    CeilDiv(TheoreticalEncryptedSize(file_size), part_size)

\* try/finally in place of try/except: the abort would follow a completion
\* that returned, too.
AfterCompleteFinally(result) ==
    IF result = "ok" \/ Caught(result) THEN "aexit_abort" ELSE "raised"

\* __aexit__ returning a true value: the exception of the with body is
\* swallowed and async_main goes on to the download.
AfterCompleteSwallowsError(result) ==
    IF result = "ok" THEN "download_url"
    ELSE IF Caught(result) THEN "aexit_abort" ELSE "raised"

\* Where __aexit__ goes once complete_multipart_upload has ended with
\* `result`: try/except, so the abort is reached on a caught exception only.
\* When the call returns, __aexit__ returns None: the with block is left, to
\* the download when its body ended normally, with exc_v otherwise.
AfterComplete(result) ==
    IF result = "ok"
    THEN IF exc_v = NoExc THEN "download_url" ELSE "raised"
    ELSE IF Caught(result) THEN "aexit_abort" ELSE "raised"

\* __aexit__ does not look at exc_t, exc_v, exc_tb: it always tries to
\* complete.
AexitComplete ==
    /\ pc = "aexit"
    /\ \E result \in {"ok"} \cup FailKinds :
        /\ result = "ok" => BackendAccepts
        /\ calls' = Append(calls, Call("complete_multipart_upload",
                                       AnticipatedPartQuantity, result))
        /\ faults' = faults + Injected(result)
        /\ pc' = AfterComplete(result)
        /\ IF result = "ok"
           THEN /\ backend' = [backend EXCEPT
                                  !.upload = "completed",
                                  !.object = AssembleObject(backend.parts)]
                /\ exc' = exc
                /\ raised' = exc_v
           ELSE /\ backend' = backend
                /\ exc' = Exc(result, "complete_multipart_upload")
                /\ raised' = IF Caught(result) THEN raised
                             ELSE Exc(result, "complete_multipart_upload")
    /\ UNCHANGED <<probe, file_size, file_len, requested, part_size, encryptor,
                   part_number, part, exc_v, emitted, sent, returned, upload_times,
                   download_times, decryptor, range_index>>

\* The except clause of __aexit__: abort_multipart_upload, then raise exc.
AexitAbort ==
    /\ pc = "aexit_abort"
    /\ \E result \in {"ok"} \cup FailKinds :
        /\ result = "ok" => BackendAccepts
        /\ calls' = Append(calls, Call("abort_multipart_upload", 0, result))
        /\ faults' = faults + Injected(result)
        /\ IF result = "ok"
           THEN /\ backend' = [backend EXCEPT !.upload = "aborted"]
                /\ raised' = exc
           ELSE /\ backend' = backend
                /\ raised' = Exc(result, "abort_multipart_upload")
    /\ pc' = "raised"
    /\ UNCHANGED <<probe, file_size, file_len, requested, part_size, encryptor,
                   part_number, part, exc_v, exc, emitted, sent, returned,
                   upload_times, download_times, decryptor, range_index>>

\* ------------------------------------------------- ChunkedDownloader
\* The downloader built with the size of the plaintext file.
DownloadRangesOfPlainSize == get_ranges(file_size, part_size)

\* The downloader is built with encrypted_file_size =
\* uploader.encryptor.encrypted_file_size and part_size = config.part_size.
DownloadRanges == get_ranges(encryptor.encrypted_file_size, part_size)

\* ChunkedDownloader.download up to process_parts
GetObjectDownloadUrl ==
    /\ pc = "download_url"
    /\ \E result \in {"ok"} \cup FailKinds :
        /\ calls' = Append(calls, Call("get_object_download_url", 0, result))
        /\ faults' = faults + Failed(result)
        /\ IF result = "ok"
           THEN /\ pc' = "download"
                /\ raised' = raised
           ELSE /\ pc' = "raised"
                /\ raised' = Exc(result, "get_object_download_url")
    /\ UNCHANGED <<probe, file_size, file_len, requested, part_size, encryptor,
                   part_number, part, exc_v, exc, backend, emitted, sent, returned,
                   upload_times, download_times, decryptor, range_index>>

\* The body of the for loop of Decryptor.process_parts for one chunk.
ProcessChunk(d, file_part) ==
    LET dec == Decryptor_decrypt(d.unprocessed_bytes \o file_part)
        download_buffer == d.download_buffer \o dec.decrypted
        checksums == update_encrypted(d.checksums, file_part)
    IN  [ok |-> dec.ok,
         decryptor |->
             IF Len(download_buffer) >= part_size
             THEN [unprocessed_bytes |-> dec.incomplete_segment,
                   download_buffer |-> Drop(download_buffer, part_size),
                   checksums |-> update_unencrypted(checksums,
                                                    Take(download_buffer, part_size))]
             ELSE [unprocessed_bytes |-> dec.incomplete_segment,
                   download_buffer |-> download_buffer,
                   checksums |-> checksums]]

\* One iteration of process_parts: _download_parts requests the next range
\* and yields response.content, the loop body decrypts it.
DownloadPart ==
    /\ pc = "download"
    /\ range_index < Len(DownloadRanges)
    /\ \E result \in {"ok"} \cup SyncFailKinds :
        LET range == DownloadRanges[range_index + 1]
            content == Slice(backend.object, range[1], range[2] + 1)
            step == ProcessChunk(decryptor, content)
        IN  /\ calls' = Append(calls, Call("get", range_index + 1, result))
            /\ faults' = faults + Failed(result)
            /\ range_index' = range_index + 1
            /\ IF result # "ok"
               THEN /\ pc' = "raised"
                    /\ raised' = Exc(result, "get")
                    /\ UNCHANGED <<decryptor, download_times>>
               ELSE IF ~step.ok
               THEN /\ pc' = "raised"
                    /\ raised' = Exc("Exception", "decrypt_block")
                    /\ decryptor' = [decryptor EXCEPT
                           !.checksums = update_encrypted(@, content)]
                    /\ download_times' = download_times
               ELSE /\ pc' = pc
                    /\ raised' = raised
                    /\ decryptor' = step.decryptor
                    /\ download_times' = download_times + 1
    /\ UNCHANGED <<probe, file_size, file_len, requested, part_size, encryptor,
                   part_number, part, exc_v, exc, backend, emitted, sent, returned,
                   upload_times>>

\* The while loop without the final if: a tail shorter than part_size is
\* never hashed.
RECURSIVE DrainDownloadBufferNoTail(_, _)
DrainDownloadBufferNoTail(checksums, download_buffer) ==
    IF Len(download_buffer) >= part_size
    THEN DrainDownloadBufferNoTail(
             update_unencrypted(checksums, Take(download_buffer, part_size)),
             Drop(download_buffer, part_size))
    ELSE checksums

\* The while loop and the final if of process_parts: the buffer is hashed in
\* slices of part_size, then the tail.
RECURSIVE DrainDownloadBuffer(_, _)
DrainDownloadBuffer(checksums, download_buffer) ==
    IF Len(download_buffer) >= part_size
    THEN DrainDownloadBuffer(
             update_unencrypted(checksums, Take(download_buffer, part_size)),
             Drop(download_buffer, part_size))
    ELSE IF download_buffer # <<>>
    THEN update_unencrypted(checksums, download_buffer)
    ELSE checksums

\* process_parts after the last chunk: process dangling bytes, drain.
DecryptorFinish ==
    /\ pc = "download"
    /\ UNCHANGED faults
    /\ range_index = Len(DownloadRanges)
    /\ LET last == IF decryptor.unprocessed_bytes # <<>>
                   THEN decrypt_segment(decryptor.unprocessed_bytes)
                   ELSE [ok |-> TRUE, data |-> <<>>]
       IN  IF last.ok
           THEN /\ decryptor' = [decryptor EXCEPT
                       !.download_buffer = <<>>,
                       !.checksums = DrainDownloadBuffer(
                           @, decryptor.download_buffer \o last.data)]
                /\ pc' = "validate"
                /\ raised' = raised
           ELSE /\ decryptor' = decryptor
                /\ pc' = "raised"
                /\ raised' = Exc("Exception", "decrypt_block")
    /\ UNCHANGED <<probe, file_size, file_len, requested, part_size, encryptor,
                   part_number, part, exc_v, exc, backend, calls, emitted, sent, returned,
                   upload_times, download_times, range_index>>

\* target_checksums.get() == checkums.get()
ChecksumsMatch == ChecksumsGet(encryptor.checksums) = ChecksumsGet(decryptor.checksums)

\* ChunkedDownloader.validate_checksums
ValidateChecksums ==
    /\ pc = "validate"
    /\ UNCHANGED faults
    /\ IF ChecksumsMatch
       THEN /\ pc' = "summarize"
            /\ raised' = raised
       ELSE /\ pc' = "raised"
            /\ raised' = Exc("Exception", "validate_checksums")
    /\ UNCHANGED <<probe, file_size, file_len, requested, part_size, encryptor,
                   part_number, part, exc_v, exc, backend, calls, emitted, sent, returned,
                   upload_times, download_times, decryptor, range_index>>

\* summarize divides by len(upload_times), by len(download_times) and by
\* unencrypted_size.
Summarize ==
    /\ pc = "summarize"
    /\ UNCHANGED faults
    /\ IF upload_times = 0 \/ download_times = 0 \/ file_size = 0
       THEN /\ pc' = "raised"
            /\ raised' = Exc("Exception", "summarize")
       ELSE /\ pc' = "done"
            /\ raised' = raised
    /\ UNCHANGED <<probe, file_size, file_len, requested, part_size, encryptor,
                   part_number, part, exc_v, exc, backend, calls, emitted, sent, returned,
                   upload_times, download_times, decryptor, range_index>>

Next ==
    \/ AsyncMainStart
    \/ MultipartUploadAenter
    \/ EncryptorReadChunk
    \/ EncryptorResumeLoop
    \/ EncryptorDangling
    \/ EncryptorDrain
    \/ EncryptorResumeDrain
    \/ EncryptorResumeTail
    \/ EncryptorRaises
    \/ GetPartUploadUrl
    \/ SessionPut
    \/ SendPartAbort
    \/ CheckEncryptedSize
    \/ AexitComplete
    \/ AexitAbort
    \/ GetObjectDownloadUrl
    \/ DownloadPart
    \/ DecryptorFinish
    \/ ValidateChecksums
    \/ Summarize

Spec == Init /\ [][Next]_vars

\* ============================================== files beyond every part size
\* The run started on a file that no part size can hold in 9995 parts, next
\* to files of ordinary size, for which the run goes on as in Spec.
OrdinaryFileSizes == {MaxFileSize - 1, MaxFileSize}

OversizeFileSizes ==
    {PART_CEILING * CandidateSizes[Len(CandidateSizes)] + d : d \in 1..2}

OversizeInit ==
    /\ pc = "start"
    /\ \/ /\ file_size \in OrdinaryFileSizes
          /\ file_len \in file_size..(file_size + MaxGrowth)
       \/ /\ file_size \in OversizeFileSizes
          /\ file_len = file_size
    /\ requested \in RequestedPartSizes
    /\ part_size = 0
    /\ encryptor = NewEncryptor
    /\ part_number = 0
    /\ part = <<>>
    /\ exc_v = NoExc
    /\ exc = NoExc
    /\ backend = NewBackend
    /\ calls = <<>>
    /\ emitted = <<>>
    /\ sent = <<>>
    /\ returned = 0
    /\ upload_times = 0
    /\ download_times = 0
    /\ decryptor = NewDecryptor
    /\ range_index = 0
    /\ raised = NoExc
    /\ faults = 0
    /\ probe = NoProbe

OversizeSpec == OversizeInit /\ [][Next]_vars

\* ================================= Encryptor and Decryptor on their own
\* Encryptor.process_file and Decryptor.process_parts driven directly: a file
\* of any length up to MaxPlainLength, a part size of any length up to
\* MaxPartLength, no storage in between.
MaxPlainLength == 9
MaxPartLength == 7

CodecInit ==
    /\ pc = "pull"
    /\ file_size \in 0..MaxPlainLength
    /\ file_len = file_size
    /\ requested = 0
    /\ part_size \in 1..MaxPartLength
    /\ encryptor = NewEncryptor
    /\ part_number = 0
    /\ part = <<>>
    /\ exc_v = NoExc
    /\ exc = NoExc
    /\ backend = NewBackend
    /\ calls = <<>>
    /\ emitted = <<>>
    /\ sent = <<>>
    /\ returned = 0
    /\ upload_times = 0
    /\ download_times = 0
    /\ decryptor = NewDecryptor
    /\ range_index = 0
    /\ raised = NoExc
    /\ faults = 0
    /\ probe = NoProbe

\* for part in encryptor.process_file(file): the part is taken and the
\* generator resumed.
CodecTakePart ==
    /\ pc = "get_part_upload_url"
    /\ pc' = "pull"
    /\ returned' = returned + 1
    /\ UNCHANGED <<probe, file_size, file_len, requested, part_size, encryptor,
                   part_number, part, exc_v, exc, backend, calls, emitted, sent,
                   upload_times, download_times, decryptor, range_index, raised,
                   faults>>

\* A stream cut into the chunks a download in slices of part_size delivers.
Chunks(stream) ==
    [k \in 1..CeilDiv(Len(stream), part_size) |->
        Slice(stream, (k - 1) * part_size, k * part_size)]

\* A byte with another value: of a nonce byte the nonce, of a ciphertext
\* byte the content, of a tag byte what it authenticates.
Flip(byte) ==
    IF byte[1] = "ct" THEN [byte EXCEPT ![4] = -1 - @]
    ELSE [byte EXCEPT ![2] = -1 - @]

\* The stream with the byte at 1-based offset o changed.
Corrupted(stream, o) == [stream EXCEPT ![o] = Flip(@)]

\* What process_parts can be given in place of the parts that were yielded:
\* the same bytes with one byte changed, or only the first o bytes of them.
TamperedStreams ==
    LET stream == Join(emitted)
    IN  {Chunks(Corrupted(stream, o)) : o \in 1..Len(stream)}
            \cup {Chunks(Take(stream, o)) : o \in 0..(Len(stream) - 1)}

\* process_file is exhausted; its parts, or a tampered stream, are what
\* download_files() will yield.
CodecHandOver ==
    /\ pc = "size_check"
    /\ \E chunks \in {emitted} \cup TamperedStreams :
        /\ backend' = [backend EXCEPT !.parts = chunks]
        /\ faults' = faults + (IF chunks = emitted THEN 0 ELSE 1)
    /\ pc' = "download"
    /\ UNCHANGED <<probe, file_size, file_len, requested, part_size, encryptor,
                   part_number, part, exc_v, exc, calls, emitted, sent, returned,
                   upload_times, download_times, decryptor, range_index, raised>>

\* One iteration of the for loop of process_parts on the next chunk.
CodecFeedPart ==
    /\ pc = "download"
    /\ range_index < Len(backend.parts)
    /\ LET file_part == backend.parts[range_index + 1]
           step == ProcessChunk(decryptor, file_part)
       IN  IF step.ok
           THEN /\ decryptor' = step.decryptor
                /\ download_times' = download_times + 1
                /\ UNCHANGED <<pc, raised>>
           ELSE /\ decryptor' = [decryptor EXCEPT
                       !.checksums = update_encrypted(@, file_part)]
                /\ pc' = "raised"
                /\ raised' = Exc("Exception", "decrypt_block")
                /\ download_times' = download_times
    /\ range_index' = range_index + 1
    /\ UNCHANGED <<probe, file_size, file_len, requested, part_size, encryptor,
                   part_number, part, exc_v, exc, backend, calls, emitted, sent,
                   returned, upload_times, faults>>

\* process_parts after the last chunk: process dangling bytes, drain.
CodecFinish ==
    /\ pc = "download"
    /\ range_index = Len(backend.parts)
    /\ LET last == IF decryptor.unprocessed_bytes # <<>>
                   THEN decrypt_segment(decryptor.unprocessed_bytes)
                   ELSE [ok |-> TRUE, data |-> <<>>]
       IN  IF last.ok
           THEN /\ decryptor' = [decryptor EXCEPT
                       !.download_buffer = <<>>,
                       !.checksums = DrainDownloadBuffer(
                           @, decryptor.download_buffer \o last.data)]
                /\ pc' = "validate"
                /\ raised' = raised
           ELSE /\ decryptor' = decryptor
                /\ pc' = "raised"
                /\ raised' = Exc("Exception", "decrypt_block")
    /\ UNCHANGED <<probe, file_size, file_len, requested, part_size, encryptor,
                   part_number, part, exc_v, exc, backend, calls, emitted, sent,
                   returned, upload_times, download_times, range_index, faults>>

CodecNext ==
    \/ EncryptorReadChunk
    \/ EncryptorResumeLoop
    \/ EncryptorDangling
    \/ EncryptorDrain
    \/ EncryptorResumeDrain
    \/ EncryptorResumeTail
    \/ CodecTakePart
    \/ CodecHandOver
    \/ CodecFeedPart
    \/ CodecFinish

CodecSpec == CodecInit /\ [][CodecNext]_vars

\* ================================================ functions on their own
\* check_adjust_part_size, validate_checksums, get_segments and get_ranges
\* called on arguments drawn from the sets below.

\* config.part_size in MiB: negative, zero, below, at and above the lower
\* bound, the steps of the fixed list, below, at and above the upper bound.
PartSizeRequests == (-1..9) \cup {16, 64, 4096, 5119, 5120, 5121}

\* Part sizes in bytes check_adjust_part_size can work with.
PartSizeSteps ==
    {ClampPartSize(r) : r \in PartSizeRequests}
        \cup {CandidateSizes[i] : i \in DOMAIN CandidateSizes}

\* File sizes: empty, small, and the largest size each part size still
\* allows, with and without one byte more.
FileSizeSamples ==
    {0, 1} \cup {PART_CEILING * s + d : s \in PartSizeSteps, d \in {0, 1}}

\* A checksum set after update_unencrypted(plain) and update_encrypted(p)
\* for each p of parts.
RECURSIVE ChecksumsOf(_, _)
ChecksumsOf(plain, parts) ==
    IF parts = <<>> THEN update_unencrypted(NewChecksums, plain)
    ELSE update_encrypted(ChecksumsOf(plain, SubSeq(parts, 1, Len(parts) - 1)),
                          parts[Len(parts)])

PartListSamples ==
    LET ps == {<<7>>, <<8>>}
    IN  {<<>>} \cup {<<p>> : p \in ps} \cup {<<p, q>> : p \in ps, q \in ps}

ChecksumSamples ==
    {ChecksumsOf(plain, parts) : plain \in {FileBytes(n) : n \in 0..2},
                                 parts \in PartListSamples}

\* ====================================================== sizes at full size
\* The part count of the encrypted file depends on the ratio of the 28 bytes
\* added per segment to the segment size, which the scaled sizes above do not
\* keep.  Here sizes have their real values; a byte count is held as whole
\* segments plus bytes, [segments |-> q, bytes |-> r] for q * 65536 + r with
\* r < 65536, so that no number leaves the 32-bit range, and a part size is
\* held in MiB.
FULL_SEGMENT_SIZE == 65536
FULL_CIPHER_DIFF == 28
FULL_MIB == 1048576
PART_LIMIT == 10000

FullSegmentsPerMiB == FULL_MIB \div FULL_SEGMENT_SIZE

Wide(q, r) ==
    [segments |-> q + r \div FULL_SEGMENT_SIZE, bytes |-> r % FULL_SEGMENT_SIZE]

\* math.ceil(self.unencrypted_file_size / crypt4gh.lib.SEGMENT_SIZE)
FullNumSegments(size) == size.segments + (IF size.bytes > 0 THEN 1 ELSE 0)

\* self.unencrypted_file_size + num_segments * 28
FullEncryptedSize(size) ==
    LET n == FullNumSegments(size)
        high == FULL_CIPHER_DIFF * (n \div FULL_SEGMENT_SIZE)
        low == FULL_CIPHER_DIFF * (n % FULL_SEGMENT_SIZE)
    IN  Wide(size.segments + high, size.bytes + low)

\* math.ceil(encrypted_file_size / part_size) for a part size of p MiB
FullNumParts(size, p) ==
    LET part_segments == FullSegmentsPerMiB * p
    IN  size.segments \div part_segments
            + (IF size.segments % part_segments > 0 \/ size.bytes > 0 THEN 1 ELSE 0)

\* The test against the number of parts the backend takes, without the
\* margin of five parts.
ExceedsPartLimit(size, p) ==
    LET most == PART_LIMIT * FullSegmentsPerMiB * p
    IN  size.segments > most \/ (size.segments = most /\ size.bytes > 0)

\* file_size / part_size > 9_995 for a part size of p MiB
ExceedsPartCeiling(size, p) ==
    LET most == PART_CEILING * FullSegmentsPerMiB * p
    IN  size.segments > most \/ (size.segments = most /\ size.bytes > 0)

\* The for/else over sizes, in MiB.
RECURSIVE FullFirstCandidate(_, _, _)
FullFirstCandidate(i, p, size) ==
    IF i > Len(CandidateSizes) THEN 0
    ELSE LET candidate == CandidateSizes[i] \div MiB
         IN  IF candidate > p /\ ~ExceedsPartCeiling(size, candidate)
             THEN candidate
             ELSE FullFirstCandidate(i + 1, p, size)

\* check_adjust_part_size on sizes at full size: ok = FALSE stands for the
\* ValueError, part_size is config.part_size in MiB.
FullCheckAdjustPartSize(config_part_size, size) ==
    LET clamped == ClampPartSize(config_part_size) \div MiB
    IN  IF ExceedsPartCeiling(size, clamped)
        THEN LET candidate == FullFirstCandidate(1, clamped, size)
             IN  IF candidate = 0
                 THEN [ok |-> FALSE, part_size |-> clamped]
                 ELSE [ok |-> TRUE, part_size |-> candidate]
        ELSE [ok |-> TRUE, part_size |-> clamped]

\* File sizes at full size: empty, small, and around the largest size each
\* part size allows.
FullFileSizeSamples ==
    LET steps == {s \div MiB : s \in PartSizeSteps}
        segs == {0, 1} \cup {PART_CEILING * FullSegmentsPerMiB * m - d :
                                 m \in steps, d \in {0, 1}}
    IN  {Wide(q, r) : q \in segs, r \in {0, 1, FULL_SEGMENT_SIZE - 1}}

\* ------------------------------------------------ validate-download
\* run_download_validation(config, object_key) of the validate-download
\* command.  The CLI passes None when --object-key is not given.
PyNone == "<None>"
Unbound == "<unbound>"
ObjectKeys == {PyNone, "", "object-1", "object-2"}

\* `not object_key`
Falsy(object_key) == object_key \in {PyNone, ""}

\* The parameters of upload_test_file(client, bucket, expect_error=False)
UploadTestFileParameters == {"client", "bucket", "expect_error"}

\* The keywords run_download_validation calls upload_test_file with
UploadTestFileKeywords == {"client", "bucket", "file_size"}

\* The locals of run_download_validation and what it has done so far.
NewDownloadValidation ==
    [test_object_key |-> Unbound, test_file_checksum |-> Unbound,
     ops |-> <<>>, raised |-> "none"]

FnInit ==
    /\ \/ /\ pc = "start"
          /\ requested \in PartSizeRequests
          /\ file_size \in FileSizeSamples
          /\ encryptor = NewEncryptor
          /\ decryptor = NewDecryptor
          /\ probe = NoProbe
       \/ /\ pc = "validate"
          /\ requested = 0
          /\ file_size = 0
          /\ \E target \in ChecksumSamples :
                 encryptor = [NewEncryptor EXCEPT !.checksums = target, !.at = "done"]
          /\ \E checkums \in ChecksumSamples :
                 decryptor = [NewDecryptor EXCEPT !.checksums = checkums]
          /\ probe = NoProbe
       \/ /\ pc = "call"
          /\ requested = 0
          /\ file_size = 0
          /\ encryptor = NewEncryptor
          /\ decryptor = NewDecryptor
          /\ \/ \E n \in 0..MaxPlainLength, segment_size \in 1..MaxPartLength :
                    probe = [fn |-> "get_segments",
                             args |-> <<FileBytes(n), segment_size>>,
                             result |-> <<>>]
             \/ \E args \in ((0..MaxFileSize) \X (1..MaxPartLength)) \cup {<<100, 30>>} :
                    probe = [fn |-> "get_ranges", args |-> args, result |-> <<>>]
             \/ \E object_key \in ObjectKeys :
                    probe = [fn |-> "run_download_validation",
                             args |-> <<object_key>>,
                             result |-> NewDownloadValidation]
             \/ \E config_part_size \in PartSizeRequests, size \in FullFileSizeSamples :
                    probe = [fn |-> "check_adjust_part_size",
                             args |-> <<config_part_size, size>>,
                             result |-> <<>>]
    /\ file_len = file_size
    /\ part_size = 0
    /\ part_number = 0
    /\ part = <<>>
    /\ exc_v = NoExc
    /\ exc = NoExc
    /\ backend = NewBackend
    /\ calls = <<>>
    /\ emitted = <<>>
    /\ sent = <<>>
    /\ returned = 0
    /\ upload_times = 0
    /\ download_times = 0
    /\ range_index = 0
    /\ raised = NoExc
    /\ faults = 0

ProbeFrame ==
    UNCHANGED <<file_size, file_len, requested, part_size, encryptor, part_number,
                part, exc_v, exc, backend, calls, emitted, sent, returned,
                upload_times, download_times, decryptor, range_index, raised, faults>>

\* segments, incomplete_segment = get_segments(part, segment_size)
CallGetSegments ==
    /\ pc = "call"
    /\ probe.fn = "get_segments"
    /\ probe' = [probe EXCEPT !.result = get_segments(probe.args[1], probe.args[2])]
    /\ pc' = "returned"
    /\ ProbeFrame

\* byte_ranges = get_ranges(file_size, part_size)
CallGetRanges ==
    /\ pc = "call"
    /\ probe.fn = "get_ranges"
    /\ probe' = [probe EXCEPT !.result = get_ranges(probe.args[1], probe.args[2])]
    /\ pc' = "returned"
    /\ ProbeFrame

\* check_adjust_part_size(config, file_size) on sizes at full size
CallCheckAdjustPartSize ==
    /\ pc = "call"
    /\ probe.fn = "check_adjust_part_size"
    /\ probe' = [probe EXCEPT
                    !.result = FullCheckAdjustPartSize(probe.args[1], probe.args[2])]
    /\ pc' = "returned"
    /\ ProbeFrame

\* run_download_validation, the `if not object_key` block: the call of
\* upload_test_file binds its keywords first (TypeError for a keyword that is
\* no parameter); the one string it returns is then unpacked into two names.
RunDownloadValidationUpload ==
    /\ pc = "call"
    /\ probe.fn = "run_download_validation"
    /\ LET object_key == probe.args[1]
           locals == probe.result
       IN  IF ~Falsy(object_key)
           THEN /\ probe' = probe
                /\ pc' = "download_client"
           ELSE IF ~(UploadTestFileKeywords \subseteq UploadTestFileParameters)
           THEN /\ probe' = [probe EXCEPT !.result.raised = "TypeError"]
                /\ pc' = "returned"
           ELSE /\ probe' = [probe EXCEPT
                               !.result.ops = Append(@, <<"upload_test_file">>),
                               !.result.raised = "ValueError"]
                /\ pc' = "returned"
    /\ ProbeFrame

\* run_download_validation from the download client on: the key downloaded is
\* the local test_object_key, which only the upload block binds.
RunDownloadValidationDownload ==
    /\ pc = "download_client"
    /\ probe.fn = "run_download_validation"
    /\ LET locals == probe.result
       IN  IF locals.test_object_key = Unbound
           THEN probe' = [probe EXCEPT !.result.raised = "UnboundLocalError"]
           ELSE \E exists \in BOOLEAN :
                   probe' = [probe EXCEPT !.result.ops =
                       @ \o <<<<"download_file", locals.test_object_key>>>>
                         \o (IF exists
                             THEN <<<<"validate_downloaded_file",
                                      locals.test_file_checksum>>>>
                             ELSE <<>>)]
    /\ pc' = "returned"
    /\ ProbeFrame

FnNext ==
    \/ RunDownloadValidationUpload
    \/ RunDownloadValidationDownload
    \/ AsyncMainStart
    \/ ValidateChecksums
    \/ CallGetSegments
    \/ CallGetRanges
    \/ CallCheckAdjustPartSize

FnSpec == FnInit /\ [][FnNext]_vars

\* ================================================================ claims
\* Vocabulary: what the log of backend requests shows.
CallIndices(op) == {i \in DOMAIN calls : calls[i].op = op}
Count(op) == Cardinality(CallIndices(op))
SendCalls == CallIndices("get_part_upload_url") \cup CallIndices("put")
TransactionCalls ==
    CallIndices("init_multipart_upload") \cup SendCalls
        \cup CallIndices("complete_multipart_upload")

InitSucceeded ==
    \E i \in CallIndices("init_multipart_upload") : calls[i].result = "ok"

\* Control has left the async with block of a transaction that was begun.
LeftScope ==
    /\ InitSucceeded
    /\ pc \in {"download_url", "download", "validate", "summarize", "done", "raised"}

InSendPart == pc \in {"get_part_upload_url", "put", "send_part_abort"}

\* Some send_part failed with an Exception (a network error, a rejection by
\* the backend) inside its try block.
SendPartFailed == \E i \in SendCalls : calls[i].result = "Exception"

CompleteFailed ==
    \E i \in CallIndices("complete_multipart_upload") : calls[i].result \in FailKinds

Cancellations == {"KeyboardInterrupt", "CancelledError"}

\* Number of failures the environment has caused in this run, a file that
\* changed between stat() and open() counted as one.
Faults == faults + (IF file_len # file_size THEN 1 ELSE 0)

\* C1: if send_part fails on some part, then once the with block is left
\* abort_multipart_upload has been called exactly once and
\* complete_multipart_upload not at all.
C1_FailedPartAbortsOnceNeverCompletes ==
    (LeftScope /\ SendPartFailed /\ Faults = 1) =>
        /\ Count("abort_multipart_upload") = 1
        /\ Count("complete_multipart_upload") = 0

\* C2: when init, every send_part and the completion all returned without
\* raising, complete_multipart_upload has been called exactly once, after
\* every request of every send_part, abort_multipart_upload never; and when
\* the with body ended normally every part the Encryptor yielded was put
\* before it.
C2_SuccessfulRunCompletesOnce ==
    (LeftScope /\ \A i \in TransactionCalls : calls[i].result \notin FailKinds) =>
        /\ Count("complete_multipart_upload") = 1
        /\ Count("abort_multipart_upload") = 0
        /\ \A i \in CallIndices("complete_multipart_upload") :
               \A j \in SendCalls : j < i
        /\ exc_v = NoExc =>
               /\ encryptor.at = "done"
               /\ Count("put") = Len(emitted)

C2_Witness ==
    /\ LeftScope
    /\ \A i \in TransactionCalls : calls[i].result = "ok"
    /\ exc_v = NoExc
    /\ Len(emitted) = 5
    /\ Count("complete_multipart_upload") = 1

\* C3: once the with block of a begun transaction is left, exactly one of
\* complete_multipart_upload and abort_multipart_upload has been called,
\* whether the with body ended normally or with an exception.  (Where the
\* body ended normally and the completion itself failed, the abort that
\* answers the failed completion is not counted against the claim.)
C3_ExactlyOneOfCompleteAbort ==
    (LeftScope /\ Faults <= 1) =>
        \/ Count("complete_multipart_upload") + Count("abort_multipart_upload") = 1
        \/ /\ exc_v = NoExc
           /\ CompleteFailed
           /\ Count("complete_multipart_upload") = 1
           /\ Count("abort_multipart_upload") = 1

\* C4: when the with body failed outside send_part (process_file raised, or
\* the encrypted-size check raised), the transaction ends aborted: abort was
\* issued, complete was not called, the backend holds no completed object.
C4_FailureOutsideSendPartAborts ==
    (LeftScope /\ exc_v.origin \in {"process_file", "size_mismatch"} /\ Faults = 1) =>
        /\ Count("abort_multipart_upload") >= 1
        /\ Count("complete_multipart_upload") = 0
        /\ backend.upload # "completed"

\* C5: when a send_part failed with error E, the error that leaves the with
\* block is E, not one raised by the abort or by the completion attempt.
C5_OriginalSendPartErrorPropagates ==
    (LeftScope /\ SendPartFailed /\ Faults = 1) =>
        \E i \in SendCalls :
            /\ calls[i].result = "Exception"
            /\ raised = Exc(calls[i].result, calls[i].op)

\* C6: when every part was sent successfully and complete_multipart_upload
\* then fails, abort_multipart_upload is called exactly once, after the
\* failed completion, the completion error is what reaches the caller, and
\* no download request is made.
AllPartsSent ==
    /\ exc_v = NoExc
    /\ Len(emitted) >= 1
    /\ Count("put") = Len(emitted)
    /\ \A i \in SendCalls : calls[i].result = "ok"

C6_FailedCompletionAbortsOnce ==
    (LeftScope /\ AllPartsSent /\ CompleteFailed) =>
        /\ Count("abort_multipart_upload") = 1
        /\ \A i \in CallIndices("abort_multipart_upload") :
               \A j \in CallIndices("complete_multipart_upload") : j < i
        /\ raised.origin = "complete_multipart_upload"
        /\ Count("get_object_download_url") = 0
        /\ Count("get") = 0

\* C7: a cancellation while the transaction is in progress (during the
\* upload-URL request, during the transmission, or between two parts) ends
\* like any other failure: abort is issued and complete is not called.
C7_CancellationAborts ==
    (/\ LeftScope
     /\ Faults = 1
     /\ \/ \E i \in SendCalls : calls[i].result \in Cancellations
        \/ exc_v.origin = "process_file" /\ exc_v.kind \in Cancellations) =>
        /\ Count("abort_multipart_upload") >= 1
        /\ Count("complete_multipart_upload") = 0

\* C8: after a non-2xx answer to the transmission of a part no later part is
\* sent, the part is not transmitted again, and once the with block is left
\* the transaction is aborted and an error has reached the caller.
C8_RejectedPartAborts ==
    \A i \in CallIndices("put") :
        (calls[i].result = "non2xx" /\ Faults = 1) =>
            /\ \A j \in SendCalls : j <= i
            /\ LeftScope => /\ backend.upload = "aborted"
                            /\ raised # NoExc

\* C9: the part numbers passed to send_part are 1, 2, 3, ... without gap or
\* repeat, the k-th send carries the k-th part the Encryptor yielded, the
\* requests to the backend follow that order, and a send starts only when
\* the one before it has ended.
C9_PartsSentInOrder ==
    /\ Len(sent) = Len(emitted)
    /\ \A k \in DOMAIN sent :
           /\ sent[k].part_number = k
           /\ sent[k].part = emitted[k]
    /\ \A op \in {"get_part_upload_url", "put"} :
           \A i \in CallIndices(op) :
               calls[i].part_number = Cardinality({j \in CallIndices(op) : j <= i})
    /\ returned = IF InSendPart THEN Len(sent) - 1 ELSE Len(sent)

C9_Witness ==
    /\ Len(sent) = 5
    /\ returned = 5
    /\ Count("put") = 5

\* C10: with a backend that never fails and stores every part, and a file
\* that is not empty and does not change during the run, async_main ends
\* without raising: the checksum sets of both sides are equal and the one
\* multipart upload that was begun is completed, not aborted.
NoInjectedFailure ==
    /\ Faults = 0
    /\ \A i \in DOMAIN calls : calls[i].result = "ok"

C10_EndToEndRunSucceeds ==
    (pc \in {"done", "raised"} /\ NoInjectedFailure /\ file_size > 0) =>
        /\ pc = "done"
        /\ raised = NoExc
        /\ ChecksumsMatch
        /\ backend.upload = "completed"
        /\ Count("init_multipart_upload") = 1
        /\ Count("complete_multipart_upload") = 1
        /\ Count("abort_multipart_upload") = 0

C10_Witness ==
    /\ pc = "done"
    /\ NoInjectedFailure
    /\ Len(emitted) = 4
    /\ Len(decryptor.checksums.encrypted_md5) = 4
    /\ ChecksumsMatch

\* ------------------------------------------- Encryptor and Decryptor alone
\* Vocabulary: the lengths of a list of parts, summed.
RECURSIVE SumLen(_)
SumLen(parts) == IF parts = <<>> THEN 0 ELSE Len(Head(parts)) + SumLen(Tail(parts))

\* The ciphertext of a plaintext of length L: its segments, each encrypted
\* with the next nonce, a short last segment included.
WholeCiphertext(L) ==
    LET e == Encryptor_encrypt(FileBytes(L), 0)
    IN  e.encrypted \o (IF e.incomplete_segment # <<>>
                        THEN encrypt_segment(e.incomplete_segment, e.nonce + 1)
                        ELSE <<>>)

IsPrefix(s, t) == Len(s) <= Len(t) /\ s = SubSeq(t, 1, Len(s))

\* C11: the parts process_file yields, fed in order to process_parts, never
\* fail to decrypt, and once process_parts has ended the plaintext it hashed
\* is the original plaintext, byte for byte, so both running plaintext
\* hashes are equal.
C11_RoundTrip ==
    faults = 0 =>
        /\ pc # "raised"
        /\ pc = "validate" =>
            /\ decryptor.checksums.unencrypted_sha256 = FileBytes(file_len)
            /\ sha256(decryptor.checksums.unencrypted_sha256)
                   = sha256(encryptor.checksums.unencrypted_sha256)

C11_Witness ==
    /\ pc = "validate"
    /\ faults = 0
    /\ file_len = 2 * SEGMENT_SIZE + 1
    /\ part_size = SEGMENT_SIZE + 1
    /\ Len(backend.parts) >= 3
    /\ decryptor.checksums.unencrypted_sha256 = FileBytes(file_len)

\* C12: once process_file is exhausted, the lengths of the yielded parts sum
\* to L + CIPHER_DIFF * ceil(L / SEGMENT_SIZE), encrypted_file_size has that
\* value, and it is the value encrypt_and_upload computes in advance.
C12_EncryptedLength ==
    encryptor.at = "done" =>
        LET expected == file_len + CIPHER_DIFF * CeilDiv(file_len, SEGMENT_SIZE)
        IN  /\ SumLen(emitted) = expected
            /\ encryptor.encrypted_file_size = expected
            /\ TheoreticalEncryptedSize(file_size) = expected

C12_Witness ==
    /\ encryptor.at = "done"
    /\ file_len = 3 * SEGMENT_SIZE + 1
    /\ Len(emitted) >= 2
    /\ encryptor.encrypted_file_size = file_len + 4 * CIPHER_DIFF

\* C13: the parts yielded so far are consecutive slices of the ciphertext
\* from its start: none is empty or longer than part_size, every part but
\* the last one yielded has exactly part_size bytes, and once process_file is
\* exhausted their concatenation is the whole ciphertext.
C13_PartsSliceCiphertext ==
    /\ \A k \in DOMAIN emitted : Len(emitted[k]) \in 1..part_size
    /\ \A k \in 1..(Len(emitted) - 1) : Len(emitted[k]) = part_size
    /\ IsPrefix(Join(emitted), WholeCiphertext(file_len))
    /\ encryptor.at = "done" => Join(emitted) = WholeCiphertext(file_len)

C13_Witness ==
    /\ encryptor.at = "done"
    /\ Len(emitted) >= 3
    /\ Len(emitted[Len(emitted)]) < part_size
    /\ part_size > CIPHER_SEGMENT_SIZE
    /\ Join(emitted) = WholeCiphertext(file_len)

\* C15: when the stream given to process_parts is the ciphertext with one
\* byte changed, or only its first bytes, process_parts ends with a
\* decryption failure and never completes normally.
C15_TamperedStreamFailsDecryption ==
    (faults = 1 /\ pc \in {"validate", "raised"}) =>
        /\ pc = "raised"
        /\ raised = Exc("Exception", "decrypt_block")

\* ---------------------------------------------------- checksum lists
\* Vocabulary: the chunk the i-th range request of the download received.
ReceivedChunk(i) ==
    Slice(backend.object, DownloadRanges[i][1], DownloadRanges[i][2] + 1)

\* The per-part lists of a checksum set hold, in order, the hashes of `parts`.
ListsOf(c, parts) ==
    /\ Len(c.encrypted_md5) = Len(c.encrypted_sha256)
    /\ Len(c.encrypted_md5) = Len(parts)
    /\ \A i \in DOMAIN parts :
           /\ c.encrypted_md5[i] = md5(parts[i])
           /\ c.encrypted_sha256[i] = sha256(parts[i])

ListsAligned ==
    /\ ListsOf(encryptor.checksums, emitted)
    /\ ListsOf(decryptor.checksums,
               [i \in 1..Len(decryptor.checksums.encrypted_md5) |-> ReceivedChunk(i)])
    /\ Len(decryptor.checksums.encrypted_md5)
           = Cardinality({i \in CallIndices("get") : calls[i].result = "ok"})

ListsOnlyGrow ==
    /\ IsPrefix(encryptor.checksums.encrypted_md5, encryptor.checksums.encrypted_md5')
    /\ IsPrefix(encryptor.checksums.encrypted_sha256, encryptor.checksums.encrypted_sha256')
    /\ IsPrefix(decryptor.checksums.encrypted_md5, decryptor.checksums.encrypted_md5')
    /\ IsPrefix(decryptor.checksums.encrypted_sha256, decryptor.checksums.encrypted_sha256')

\* C16: at every point of a run the MD5 list and the SHA-256 list of a
\* checksum set have the same length, entry i is the hash of the i-th part
\* yielded (upload side) or of the i-th chunk received (download side), and
\* a step only ever appends to the lists.
C16_ChecksumListsAligned == []ListsAligned /\ [][ListsOnlyGrow]_vars

C16_Witness ==
    /\ pc = "validate"
    /\ Len(encryptor.checksums.encrypted_md5) = 4
    /\ Len(decryptor.checksums.encrypted_sha256) = 4
    /\ Count("put") = 4

\* ------------------------------------------------ functions on their own
\* Vocabulary: the two checksum sets agree in each of the three components.
ComponentsEqual ==
    /\ sha256(encryptor.checksums.unencrypted_sha256)
           = sha256(decryptor.checksums.unencrypted_sha256)
    /\ encryptor.checksums.encrypted_md5 = decryptor.checksums.encrypted_md5
    /\ encryptor.checksums.encrypted_sha256 = decryptor.checksums.encrypted_sha256

\* C14: validate_checksums returns when the plaintext digest, the MD5 list
\* and the SHA-256 list of the two sets are all equal, and raises when any of
\* them differs, be it in an entry, in the length or in the order of a list.
C14_ValidateChecksumsExact ==
    [][pc = "validate" =>
          IF ComponentsEqual
          THEN pc' = "summarize" /\ raised' = NoExc
          ELSE pc' = "raised" /\ raised' = Exc("Exception", "validate_checksums")]_vars

C14_Witness ==
    /\ pc = "raised"
    /\ raised = Exc("Exception", "validate_checksums")
    /\ encryptor.checksums.unencrypted_sha256 = decryptor.checksums.unencrypted_sha256
    /\ encryptor.checksums.encrypted_md5 = <<md5(<<7>>), md5(<<8>>)>>
    /\ decryptor.checksums.encrypted_md5 = <<md5(<<8>>), md5(<<7>>)>>

\* C17: get_segments returns segments of exactly segment_size bytes and a
\* remainder of fewer than segment_size bytes which, concatenated in order,
\* are the buffer; a buffer shorter than a segment comes back whole as the
\* remainder.
C17_SegmentsPartitionBuffer ==
    (pc = "returned" /\ probe.fn = "get_segments") =>
        LET buffer == probe.args[1]
            segment_size == probe.args[2]
            segments == probe.result.segments
            incomplete_segment == probe.result.incomplete_segment
        IN  /\ Join(segments) \o incomplete_segment = buffer
            /\ \A i \in DOMAIN segments : Len(segments[i]) = segment_size
            /\ Len(incomplete_segment) \in 0..(segment_size - 1)
            /\ Len(buffer) < segment_size =>
                   segments = <<>> /\ incomplete_segment = buffer

C17_Witness ==
    /\ pc = "returned"
    /\ probe.fn = "get_segments"
    /\ probe.args = <<FileBytes(7), 3>>
    /\ Len(probe.result.segments) = 2
    /\ probe.result.incomplete_segment = <<7>>

\* C18: get_ranges returns inclusive ranges that start at 0, follow one
\* another without gap or overlap, span part_size bytes each except the last,
\* which spans at most part_size bytes and ends at file_size - 1; no range
\* for an empty file; and [(0,29),(30,59),(60,89),(90,99)] for 100 and 30.
C18_RangesCoverFile ==
    (pc = "returned" /\ probe.fn = "get_ranges") =>
        LET size == probe.args[1]
            length == probe.args[2]
            ranges == probe.result
            n == Len(ranges)
        IN  /\ n = 0 <=> size = 0
            /\ n > 0 => ranges[1][1] = 0 /\ ranges[n][2] = size - 1
            /\ \A k \in 1..n : ranges[k][1] <= ranges[k][2]
            /\ \A k \in 1..(n - 1) :
                   /\ ranges[k + 1][1] = ranges[k][2] + 1
                   /\ ranges[k][2] - ranges[k][1] + 1 = length
            /\ n > 0 => ranges[n][2] - ranges[n][1] + 1 <= length
            /\ probe.args = <<100, 30>> =>
                   ranges = <<(<<0, 29>>), (<<30, 59>>), (<<60, 89>>), (<<90, 99>>)>>

C18_Witness ==
    /\ pc = "returned"
    /\ probe.fn = "get_ranges"
    /\ probe.args = <<100, 30>>
    /\ Len(probe.result) = 4
    /\ probe.result[4] = <<90, 99>>

\* C19: when check_adjust_part_size returns, whatever part size was asked
\* for and whatever the file size, config.part_size is at least 5 MiB and at
\* most 5 GiB (5 * 1024 MiB).
C19_PartSizeWithinBounds ==
    pc = "aenter" => (lower_bound <= part_size /\ part_size <= upper_bound)

C19_Witness ==
    /\ pc = "aenter"
    /\ requested > 5 * 1024
    /\ part_size = upper_bound
    /\ file_size > PART_CEILING * lower_bound

\* C20: when check_adjust_part_size returns, the file has at most 9995 parts
\* of the returned size, also when it had more of the clamped size; and for
\* a file of 9995 * 5 GiB + 1 bytes it raises whatever part size was asked.
C20_PartCountWithinCeiling ==
    /\ pc = "aenter" => file_size <= PART_CEILING * part_size
    /\ (pc \in {"aenter", "raised"} /\ file_size = PART_CEILING * upper_bound + 1) =>
           /\ pc = "raised"
           /\ raised = Exc("Exception", "check_adjust_part_size")

C20_Witness ==
    /\ pc = "aenter"
    /\ file_size > PART_CEILING * ClampPartSize(requested)
    /\ part_size > ClampPartSize(requested)
    /\ file_size <= PART_CEILING * part_size

\* C21: when the file has more than 9995 parts of the clamped size, the
\* size check_adjust_part_size returns is one of 8, 16, ..., 4096 MiB, leaves
\* at most 9995 parts, and no smaller size of that list does; when the
\* clamped size leaves at most 9995 parts, it is returned as it is.
C21_SmallestSufficientCandidate ==
    pc = "aenter" =>
        LET clamped == ClampPartSize(requested)
            candidates == {Pow2(x) * MiB : x \in 3..12}
        IN  IF file_size > PART_CEILING * clamped
            THEN /\ part_size \in candidates
                 /\ file_size <= PART_CEILING * part_size
                 /\ \A c \in candidates :
                        c < part_size => file_size > PART_CEILING * c
            ELSE part_size = clamped

C21_Witness ==
    /\ pc = "aenter"
    /\ requested = 5
    /\ file_size = PART_CEILING * 16 * MiB + 1
    /\ part_size = 32 * MiB

\* C22: when check_adjust_part_size returns with part size P for a file of
\* L bytes, the encrypted file, L + 28 * ceil(L / 65536) bytes, has at most
\* 10000 parts of size P.
C22_EncryptedPartCountWithinLimit ==
    (pc = "returned" /\ probe.fn = "check_adjust_part_size" /\ probe.result.ok) =>
        FullNumParts(FullEncryptedSize(probe.args[2]), probe.result.part_size)
            <= PART_LIMIT

C22_Witness ==
    /\ pc = "returned"
    /\ probe.fn = "check_adjust_part_size"
    /\ probe.result.ok
    /\ probe.args[2] = Wide(PART_CEILING * FullSegmentsPerMiB * 8, 0)
    /\ probe.result.part_size = 8
    /\ FullNumParts(FullEncryptedSize(probe.args[2]), probe.result.part_size)
           = PART_LIMIT

\* C23: when check_adjust_part_size finds no part size for the file, the
\* run ends with that error and no request has been made to the backend.
NoViablePartSize == ~check_adjust_part_size(requested, file_size).ok

C23_NoRunWithoutPartSize ==
    NoViablePartSize =>
        /\ calls = <<>>
        /\ pc \in {"start", "raised"}
        /\ pc = "raised" => raised = Exc("Exception", "check_adjust_part_size")
        /\ backend = NewBackend

C23_Witness == NoViablePartSize /\ pc = "raised" /\ calls = <<>>

\* ------------------------------------------------------ the whole run, again
\* Vocabulary: the requests of the two phases.
UploadCalls == TransactionCalls \cup CallIndices("abort_multipart_upload")
DownloadCalls == CallIndices("get_object_download_url") \cup CallIndices("get")

\* The upload phase failed: a request of a send_part raised, the with body
\* raised (process_file, the size check), or the completion raised.
UploadPhaseFailed ==
    \/ \E i \in SendCalls : calls[i].result \in FailKinds
    \/ exc_v # NoExc
    \/ CompleteFailed

\* C24: every download request comes after a completion that succeeded and
\* after every request of the upload phase, and when the upload phase failed
\* no download request is made at all.
C24_PhasesDoNotOverlap ==
    /\ \A d \in DownloadCalls :
           /\ \E c \in CallIndices("complete_multipart_upload") :
                  c < d /\ calls[c].result = "ok"
           /\ \A u \in UploadCalls : u < d
    /\ UploadPhaseFailed => DownloadCalls = {}
    /\ pc \in {"download_url", "download", "validate", "summarize", "done"} =>
           /\ ~UploadPhaseFailed
           /\ backend.upload = "completed"

C24_Witness ==
    /\ Count("get") = 3
    /\ Count("put") = 3
    /\ Count("complete_multipart_upload") = 1
    /\ pc = "download"

\* ------------------------------------------------------ validate-download
\* Vocabulary: the operations run_download_validation has carried out.
ValidationOps == {probe.result.ops[i][1] : i \in DOMAIN probe.result.ops}

\* C25: validate-download with an object key downloads and validates that
\* object and uploads no test file; without an object key a test file is
\* uploaded.
C25_ObjectKeyIsDownloaded ==
    (pc = "returned" /\ probe.fn = "run_download_validation") =>
        LET object_key == probe.args[1]
        IN  IF ~Falsy(object_key)
            THEN /\ probe.result.raised = "none"
                 /\ "upload_test_file" \notin ValidationOps
                 /\ \E i \in DOMAIN probe.result.ops :
                        probe.result.ops[i] = <<"download_file", object_key>>
            ELSE "upload_test_file" \in ValidationOps

\* ------------------------------------------------------ ranges and parts
\* Vocabulary: the download has begun; the offset of the k-th part in the
\* stream of parts; every transmission of a part was stored.
DownloadStarted ==
    \E i \in CallIndices("get_object_download_url") : calls[i].result = "ok"

PartOffset(k) == SumLen(Take(emitted, k - 1))

EveryPartStored == \A i \in CallIndices("put") : calls[i].result = "ok"

\* C26: once the download has begun there are as many ranges as parts the
\* Encryptor yielded, the k-th range is the span of offsets of the k-th part,
\* and, every part having been stored, the k-th chunk the Decryptor received
\* is the k-th part and its hashes stand at index k on both sides.
C26_RangesAlignWithParts ==
    DownloadStarted =>
        /\ Len(DownloadRanges) = Len(emitted)
        /\ \A k \in DOMAIN emitted :
               DownloadRanges[k] = <<PartOffset(k), PartOffset(k) + Len(emitted[k]) - 1>>
        /\ EveryPartStored =>
               \A k \in 1..Len(decryptor.checksums.encrypted_md5) :
                   /\ ReceivedChunk(k) = emitted[k]
                   /\ decryptor.checksums.encrypted_md5[k]
                          = encryptor.checksums.encrypted_md5[k]
                   /\ decryptor.checksums.encrypted_sha256[k]
                          = encryptor.checksums.encrypted_sha256[k]

C26_Witness ==
    /\ DownloadStarted
    /\ EveryPartStored
    /\ Len(emitted) = 4
    /\ Len(emitted[4]) < part_size
    /\ Len(decryptor.checksums.encrypted_md5) = 4

\* --------------------------------------------- what the completion announces
\* Vocabulary: the for loop over the parts ran to its end (the with body
\* ended normally or in the size check after the loop) and every part the
\* Encryptor yielded went through send_part without a failure.
AllPartsSentWithoutFailure ==
    /\ encryptor.at = "done"
    /\ exc_v = NoExc \/ exc_v.origin = "size_mismatch"
    /\ Count("put") = Len(emitted)
    /\ \A i \in SendCalls : calls[i].result = "ok"

\* C27: when complete_multipart_upload is called after all parts were sent
\* without failure, the part quantity it announces is the number of
\* send_part calls, and the part size it announces is the size of every part
\* but the last.
C27_AnticipatedQuantityIsPartsSent ==
    \A c \in CallIndices("complete_multipart_upload") :
        AllPartsSentWithoutFailure =>
            /\ calls[c].part_number = Len(sent)
            /\ \A k \in 1..(Len(sent) - 1) : Len(sent[k].part) = part_size

\* ------------------------------------------------- layout of the ciphertext
\* Vocabulary: the ciphertext the Encryptor has produced so far, the parts
\* yielded and what is buffered behind them (a part just yielded is still at
\* the head of the buffer until the generator is resumed).
ProducedCiphertext ==
    IF encryptor.at \in {"yielded_in_loop", "yielded_in_drain", "yielded_tail"}
    THEN Join(Take(emitted, Len(emitted) - 1)) \o encryptor.upload_buffer
    ELSE IF encryptor.at = "done"
    THEN Join(emitted)
    ELSE Join(emitted) \o encryptor.upload_buffer

InputExhausted == encryptor.at \notin {"loop", "yielded_in_loop"}

\* C28: cut at the cipher segment size, the ciphertext produced so far is
\* the encryption of the full plaintext segments of the file, in order, each
\* under its own nonce, followed by nothing or, only once the input is
\* exhausted, by the encryption of the one short last segment; no other
\* segment has been encrypted.
C28_ShortSegmentOnlyLast ==
    LET split == get_segments(ProducedCiphertext, CIPHER_SEGMENT_SIZE)
        n == Len(split.segments)
        plain == FileBytes(file_len)
    IN  /\ \A i \in 1..n :
               split.segments[i] =
                   encrypt_segment(Slice(plain, (i - 1) * SEGMENT_SIZE, i * SEGMENT_SIZE), i)
        /\ n * SEGMENT_SIZE <= file_len
        /\ IF split.incomplete_segment = <<>>
           THEN encryptor.nonce = n
           ELSE /\ InputExhausted
                /\ n * SEGMENT_SIZE < file_len
                /\ split.incomplete_segment =
                       encrypt_segment(Drop(plain, n * SEGMENT_SIZE), n + 1)
                /\ encryptor.nonce = n + 1

C28_Witness ==
    /\ encryptor.at = "done"
    /\ part_size = 3
    /\ file_len = 7
    /\ Len(get_segments(ProducedCiphertext, CIPHER_SEGMENT_SIZE).segments) = 3
    /\ Len(get_segments(ProducedCiphertext, CIPHER_SEGMENT_SIZE).incomplete_segment)
           = CIPHER_DIFF + 1

\* ------------------------------------------------- the buffer of the Encryptor
\* Vocabulary: process_file stands at the top of its for loop with at least
\* one chunk consumed, that is, right after the slice step of a chunk.
AfterSliceStep == encryptor.at = "loop" /\ encryptor.pos > 0

\* C29 as stated: after the slice step of each chunk the output buffer holds
\* fewer than part_size bytes.
C29_BufferBelowPartSize ==
    AfterSliceStep => Len(encryptor.upload_buffer) < part_size

\* C29, amended: after the slice step of each chunk the output buffer holds
\* fewer than part_size bytes or no more than the bytes encryption has added
\* so far, CIPHER_DIFF for each segment encrypted; what has accumulated is
\* yielded in parts of part_size once the input is exhausted.
C29_BufferBoundedByOverhead ==
    /\ AfterSliceStep =>
           \/ Len(encryptor.upload_buffer) < part_size
           \/ Len(encryptor.upload_buffer) <= CIPHER_DIFF * encryptor.nonce
    /\ encryptor.at = "done" =>
           \A k \in 1..(Len(emitted) - 1) : Len(emitted[k]) = part_size

C29_Witness ==
    /\ AfterSliceStep
    /\ encryptor.pos < file_len
    /\ Len(encryptor.upload_buffer) >= part_size
    /\ Len(emitted) = 2

\* ------------------------------------------------------------ the empty file
\* C30: for an empty file, with a backend that never fails, async_main ends
\* without raising: no part was yielded or sent, the upload was completed
\* with part quantity 0, no range was read, the checksum sets are equal and
\* summarize has returned.
C30_EmptyFileRunEndsNormally ==
    (pc \in {"done", "raised"} /\ NoInjectedFailure /\ file_size = 0) =>
        /\ pc = "done"
        /\ raised = NoExc
        /\ emitted = <<>>
        /\ SendCalls = {}
        /\ Count("complete_multipart_upload") = 1
        /\ \A c \in CallIndices("complete_multipart_upload") : calls[c].part_number = 0
        /\ Count("get") = 0
        /\ ChecksumsMatch

====
